---- MODULE Spec2Model ----
(***************************************************************************)
(* LocatablePairs of pest (pest/src/iterators/locate_pairs.rs): a          *)
(* double-ended iterator over a sibling range [start, end) of a flat,      *)
(* bracket-matched token queue, which attaches a line index to every Pair  *)
(* it yields and hands it on to the FlatPairs made by flatten().           *)
(*                                                                         *)
(* Indices into the queue and byte offsets into the input are 0-based, as  *)
(* in the source: the queue is a function on 0 .. n-1; the input is a      *)
(* sequence of bytes, byte offset k being element k+1.                     *)
(***************************************************************************)
EXTENDS Integers, Sequences, FiniteSets

VARIABLES
    queue,       \* Rc<Vec<QueueableToken<R>>>, shared by every view
    input,       \* &'i str, as its UTF-8 bytes, shared by every view
    views,       \* cursor -> LocatablePairs {start, end, line_index}
    moved,       \* cursors whose LocatablePairs was consumed by flatten(self)
    flat,        \* cursor -> Option<FlatPairs {start, end, line_index}>
    ret,         \* the last call and the value it returned
    yields,      \* cursor -> the pairs next()/next_back() returned, in call order
    flatYields,  \* cursor -> the pairs the FlatPairs returned, in call order
    range0,      \* cursor -> the range the view was constructed over
    flatFrom,    \* cursor -> the range of the view when flatten() was called
    fault        \* "none", or the panic that ended the program

vars == <<queue, input, views, moved, flat, ret, yields, flatYields,
          range0, flatFrom, fault>>

(* Bounds of the model. *)
MaxPairs == 3     \* pairs of a queue under Spec
LocPairs == 2     \* pairs of a queue under SpecLoc
MaxLen == 2       \* bytes of the input under SpecLoc
ViewPairs == 2    \* pairs of a queue under SpecViews
NumCursors == 2   \* views over the one parse result under SpecViews

(* Option<T> *)
None == [some |-> FALSE]
Some(v) == [some |-> TRUE, val |-> v]

RECURSIVE Reverse(_)
Reverse(s) == IF s = <<>> THEN <<>> ELSE Append(Reverse(Tail(s)), Head(s))

(***************************************************************************)
(* The input text.  A byte is an ASCII letter, the line feed, the lead     *)
(* byte of a two-byte character or a continuation byte.                    *)
(***************************************************************************)
Bytes == {"a", "nl", "lead", "cont"}

IsUtf8(t) ==
    \A k \in 1 .. Len(t) :
        /\ t[k] = "lead" => (k < Len(t) /\ t[k + 1] = "cont")
        /\ t[k] = "cont" => (k > 1 /\ t[k - 1] = "lead")

Texts(n) == {t \in UNION {[1 .. m -> Bytes] : m \in 0 .. n} : IsUtf8(t)}

(* str::is_char_boundary *)
is_char_boundary(t, k) ==
    /\ k \in 0 .. Len(t)
    /\ (k < Len(t) => t[k + 1] # "cont")

(* &input[a..b] *)
Slice(t, a, b) == SubSeq(t, a + 1, b)

(* char::len_utf8 of the character that starts at byte offset k *)
len_utf8(t, k) == IF t[k + 1] = "lead" THEN 2 ELSE 1

(* str::chars().count() *)
RECURSIVE chars_count(_, _)
chars_count(t, k) ==
    IF k >= Len(t) THEN 0 ELSE 1 + chars_count(t, k + len_utf8(t, k))

(***************************************************************************)
(* LineIndex: the byte offsets at which lines start.                       *)
(***************************************************************************)
RECURSIVE LineIndex_scan(_, _, _)
LineIndex_scan(t, offset, line_offsets) ==
    IF offset >= Len(t) THEN line_offsets
    ELSE LET after == offset + len_utf8(t, offset)
         IN  LineIndex_scan(t, after,
                 IF t[offset + 1] = "nl" THEN Append(line_offsets, after)
                                         ELSE line_offsets)

LineIndex_new(t) == [line_offsets |-> LineIndex_scan(t, 0, <<0>>)]

(* Rc::new(value): the allocation rc holding value; Rc::clone(&r) is r *)
Rc_new(rc, value) == [rc |-> rc, value |-> value]

(* the number of recorded line starts <= pos (slice::partition_point) *)
partition_point(line_offsets, pos) ==
    Cardinality({k \in 1 .. Len(line_offsets) : line_offsets[k] <= pos})

LineIndex_line_col(li, t, pos) ==
    LET line == partition_point(li.line_offsets, pos) - 1
        first_offset == li.line_offsets[line + 1]
        col == chars_count(Slice(t, first_offset, pos), 0)
    IN  <<line + 1, col + 1>>

(***************************************************************************)
(* QueueableToken and the queue.                                           *)
(* The rule and tag of a token play no part in iteration or location and   *)
(* are left out.                                                           *)
(***************************************************************************)
StartToken(j, p) == [type |-> "Start", end_token_index |-> j, input_pos |-> p]
EndToken(i, p) == [type |-> "End", start_token_index |-> i, input_pos |-> p]

QLen(q) == Cardinality(DOMAIN q)

(* the nesting depth in front of token i of a string of brackets *)
RECURSIVE Depth(_, _)
Depth(b, i) ==
    IF i = 0 THEN 0
    ELSE Depth(b, i - 1) + (IF b[i - 1] = "Start" THEN 1 ELSE -1)

Balanced(b, n) ==
    /\ \A i \in 0 .. n : Depth(b, i) >= 0
    /\ Depth(b, n) = 0

(* the End that closes the Start at i, the Start that the End at j closes *)
CloseOf(b, n, i) ==
    CHOOSE j \in i + 1 .. n - 1 :
        /\ Depth(b, j + 1) = Depth(b, i)
        /\ \A k \in i + 1 .. j : Depth(b, k) > Depth(b, i)

OpenOf(b, n, j) ==
    CHOOSE i \in 0 .. j - 1 : b[i] = "Start" /\ CloseOf(b, n, i) = j

Brackets(n) == {b \in [0 .. n - 1 -> {"Start", "End"}] : Balanced(b, n)}

(* the non-decreasing sequences of n elements of S *)
RECURSIVE NonDecreasing(_, _)
NonDecreasing(n, S) ==
    IF n = 0 THEN {<<>>}
    ELSE UNION {{<<x>> \o s : s \in NonDecreasing(n - 1, {y \in S : y >= x})}
                  : x \in S}

Boundaries(t) == {k \in 0 .. Len(t) : is_char_boundary(t, k)}

(* the queue with brackets b and token offsets o (o[i + 1] is token i's) *)
MakeQueue(b, n, o) ==
    [i \in 0 .. n - 1 |->
        IF b[i] = "Start" THEN StartToken(CloseOf(b, n, i), o[i + 1])
                          ELSE EndToken(OpenOf(b, n, i), o[i + 1])]

(* the layout in which every innermost pair matched one character: token  *)
(* i lies behind as many characters as innermost pairs end at or before i  *)
LeafEnds(b, i) == {j \in 1 .. i : b[j] = "End" /\ b[j - 1] = "Start"}

LeafOffsets(b, n) == [k \in 1 .. n |-> Cardinality(LeafEnds(b, k - 1))]

LeafText(b, n) == [k \in 1 .. Cardinality(LeafEnds(b, n - 1)) |-> "a"]

(* the queues a parse of text t can produce, of at most maxPairs pairs *)
Queues(t, maxPairs) ==
    UNION {{MakeQueue(b, 2 * m, o) : b \in Brackets(2 * m),
                                     o \in NonDecreasing(2 * m, Boundaries(t))}
             : m \in 0 .. maxPairs}

(* section 3 of the specification: a well-nested bracket sequence whose    *)
(* offsets do not decrease and fall on character boundaries                *)
WellFormedQueue(q, t) ==
    LET n == QLen(q)
    IN  /\ DOMAIN q = 0 .. n - 1
        /\ \A i \in DOMAIN q :
              /\ is_char_boundary(t, q[i].input_pos)
              /\ i > 0 => q[i - 1].input_pos <= q[i].input_pos
              /\ q[i].type = "Start" =>
                    /\ q[i].end_token_index \in i + 1 .. n - 1
                    /\ q[q[i].end_token_index].type = "End"
                    /\ q[q[i].end_token_index].start_token_index = i
              /\ q[i].type = "End" =>
                    /\ q[i].start_token_index \in 0 .. i - 1
                    /\ q[q[i].start_token_index].type = "Start"
                    /\ q[q[i].start_token_index].end_token_index = i
        /\ \A i, k \in DOMAIN q :
              (q[i].type = "Start" /\ q[k].type = "Start"
                 /\ i < k /\ k < q[i].end_token_index)
              => q[k].end_token_index < q[i].end_token_index

(* the nesting depth of token i inside the range that starts at s *)
RECURSIVE DepthIn(_, _, _)
DepthIn(q, s, i) ==
    IF i <= s THEN 0
    ELSE DepthIn(q, s, i - 1) + (IF q[i - 1].type = "Start" THEN 1 ELSE -1)

(* [s, e) is a run of whole sibling pairs *)
SiblingRange(q, s, e) ==
    /\ s \in 0 .. QLen(q)
    /\ e \in s .. QLen(q)
    /\ \A i \in s .. e : DepthIn(q, s, i) >= 0
    /\ DepthIn(q, s, e) = 0

(***************************************************************************)
(* Pair: a handle on the token at index start.                             *)
(***************************************************************************)
pair_new(line_index, start) == [start |-> start, line_index |-> line_index]

Pair_pos(q, i) == q[i].input_pos

Pair_as_str(q, t, p) ==
    Slice(t, Pair_pos(q, p.start), Pair_pos(q, q[p.start].end_token_index))

Pair_line_col(q, t, p) ==
    IF p.line_index.some
    THEN Some(LineIndex_line_col(p.line_index.val.value, t,
                                 Pair_pos(q, p.start)))
    ELSE None

(***************************************************************************)
(* LocatablePairs.  A method is an operator on the view it is called on;   *)
(* one that indexes the queue gives Ok(value) or Panic(why).               *)
(***************************************************************************)
Ok(v) == [ok |-> TRUE, val |-> v]
Panic(why) == [ok |-> FALSE, why |-> why]

(* new with a line index that was never filled by a scan of the input *)
new_unscanned(t, start, end, rc) ==
    [start |-> start, end |-> end,
     line_index |-> Rc_new(rc, [line_offsets |-> <<0>>])]

new(t, start, end, rc) ==
    [start |-> start, end |-> end,
     line_index |-> Rc_new(rc, LineIndex_new(t))]

(* peek with start <= end for start < end *)
peek_inclusive(self) ==
    IF self.start <= self.end
    THEN Some(pair_new(Some(self.line_index), self.start))
    ELSE None

(* peek that gives the pair an index of its own, not a clone of the Rc *)
peek_own_index(self) ==
    IF self.start < self.end
    THEN Some(pair_new(Some(Rc_new(self.line_index.rc + 1,
                                   self.line_index.value)),
                       self.start))
    ELSE None

peek(self) ==
    IF self.start < self.end
    THEN Some(pair_new(Some(self.line_index), self.start))
    ELSE None

(* pair as if the pair at start had no pair inside *)
pair_leaf(q, self) ==
    IF self.start \notin DOMAIN q THEN Panic("index out of bounds")
    ELSE Ok(self.start + 1)

pair(q, self) ==
    IF self.start \notin DOMAIN q THEN Panic("index out of bounds")
    ELSE IF q[self.start].type = "Start" THEN Ok(q[self.start].end_token_index)
    ELSE Panic("unreachable")

(* pair_from_end as if the last pair of the range had no pair inside *)
pair_from_end_leaf(q, self) ==
    IF self.end - 2 \notin DOMAIN q THEN Panic("index out of bounds")
    ELSE Ok(self.end - 2)

pair_from_end(q, self) ==
    IF self.end - 1 \notin DOMAIN q THEN Panic("index out of bounds")
    ELSE IF q[self.end - 1].type = "End"
         THEN Ok(q[self.end - 1].start_token_index)
    ELSE Panic("unreachable")

(* next and next_back give the view after the call, the value returned and *)
(* the panic, if any, that ended the call                                  *)
Returned(self, value) == [self |-> self, value |-> value, fault |-> "none"]
Panicked(self, why) == [self |-> self, value |-> None, fault |-> why]

(* next that steps onto the End of the pair instead of past it *)
next_onto_end(q, self) ==
    LET p == peek(self)
        e == pair(q, self)
    IN  IF ~p.some THEN Returned(self, None)
        ELSE IF ~e.ok THEN Panicked(self, e.why)
        ELSE Returned([self EXCEPT !.start = e.val], p)

(* next that returns the pair at start and does not move start *)
next_keep_start(q, self) ==
    LET p == peek(self)
        e == pair(q, self)
    IN  IF ~p.some THEN Returned(self, None)
        ELSE IF ~e.ok THEN Panicked(self, e.why)
        ELSE Returned(self, p)

(* next that peeks after it has moved start *)
next_peek_after(q, self) ==
    LET e == pair(q, self)
    IN  IF ~peek(self).some THEN Returned(self, None)
        ELSE IF ~e.ok THEN Panicked(self, e.why)
        ELSE Returned([self EXCEPT !.start = e.val + 1],
                      peek([self EXCEPT !.start = e.val + 1]))

next(q, self) ==
    LET p == peek(self)
        e == pair(q, self)
    IN  IF ~p.some THEN Returned(self, None)
        ELSE IF ~e.ok THEN Panicked(self, e.why)
        ELSE Returned([self EXCEPT !.start = e.val + 1], p)

(* next_back that makes its pair at the index end - 1 it read from, not at *)
(* the end it assigned                                                     *)
next_back_stale(q, self) ==
    LET s == pair_from_end(q, self)
    IN  IF self.end <= self.start THEN Returned(self, None)
        ELSE IF ~s.ok THEN Panicked(self, s.why)
        ELSE Returned([self EXCEPT !.end = s.val],
                      Some(pair_new(Some(self.line_index), self.end - 1)))

(* next_back that leaves end one past the Start it found *)
next_back_past_start(q, self) ==
    LET s == pair_from_end(q, self)
    IN  IF self.end <= self.start THEN Returned(self, None)
        ELSE IF ~s.ok THEN Panicked(self, s.why)
        ELSE Returned([self EXCEPT !.end = s.val + 1],
                      Some(pair_new(Some(self.line_index), s.val)))

(* next_back without the test of end <= start *)
next_back_unguarded(q, self) ==
    LET s == pair_from_end(q, self)
    IN  IF ~s.ok THEN Panicked(self, s.why)
        ELSE Returned([self EXCEPT !.end = s.val],
                      Some(pair_new(Some(self.line_index), s.val)))

(* next_back that returns the last pair and does not move end *)
next_back_keep_end(q, self) ==
    LET s == pair_from_end(q, self)
    IN  IF self.end <= self.start THEN Returned(self, None)
        ELSE IF ~s.ok THEN Panicked(self, s.why)
        ELSE Returned(self, Some(pair_new(Some(self.line_index), s.val)))

(* next_back that assigns the index it found to start instead of end *)
next_back_sets_start(q, self) ==
    LET s == pair_from_end(q, self)
    IN  IF self.end <= self.start THEN Returned(self, None)
        ELSE IF ~s.ok THEN Panicked(self, s.why)
        ELSE Returned([self EXCEPT !.start = s.val],
                      Some(pair_new(Some(self.line_index), s.val)))

next_back(q, self) ==
    LET s == pair_from_end(q, self)
    IN  IF self.end <= self.start THEN Returned(self, None)
        ELSE IF ~s.ok THEN Panicked(self, s.why)
        ELSE Returned([self EXCEPT !.end = s.val],
                      Some(pair_new(Some(self.line_index), s.val)))

(***************************************************************************)
(* FlatPairs.                                                              *)
(***************************************************************************)
flat_pairs_new(start, end) ==
    [start |-> start, end |-> end, line_index |-> None]

(* flatten without the assignment of line_index *)
flatten_unlocated(self) == flat_pairs_new(self.start, self.end)

(* flatten over the whole queue instead of the range of the view *)
flatten_whole(self) ==
    LET pairs == flat_pairs_new(0, QLen(queue))
    IN  [pairs EXCEPT !.line_index = Some(self.line_index)]

(* flatten from start + 1, the range into_inner takes of a pair *)
flatten_inner(self) ==
    LET pairs == flat_pairs_new(self.start + 1, self.end)
    IN  [pairs EXCEPT !.line_index = Some(self.line_index)]

flatten(self) ==
    LET pairs == flat_pairs_new(self.start, self.end)
    IN  [pairs EXCEPT !.line_index = Some(self.line_index)]

FlatPairs_is_start(q, i) == q[i].type = "Start"

RECURSIVE FlatPairs_next_start_from(_, _, _)
FlatPairs_next_start_from(q, i, end) ==
    IF i < end /\ ~FlatPairs_is_start(q, i)
    THEN FlatPairs_next_start_from(q, i + 1, end)
    ELSE i

FlatPairs_next(q, self) ==
    IF self.start >= self.end THEN Returned(self, None)
    ELSE Returned([self EXCEPT !.start =
                       FlatPairs_next_start_from(q, self.start + 1, self.end)],
                  Some(pair_new(self.line_index, self.start)))

(***************************************************************************)
(* The program: views over one parse result, called in any order.          *)
(***************************************************************************)
Cursors == DOMAIN views

Live(c) == fault = "none" /\ c \notin moved

Call(c, op, value) == [cursor |-> c, op |-> op, value |-> value]

Yield(op, p) == [op |-> op, pair |-> p]

InitOver(t, q, cs, s, e) ==
    /\ WellFormedQueue(q, t)
    /\ input = t
    /\ queue = q
    /\ views = [c \in cs |-> new(t, s, e, c)]
    /\ moved = {}
    /\ flat = [c \in cs |-> None]
    /\ ret = Call(0, "new", None)
    /\ yields = [c \in cs |-> <<>>]
    /\ flatYields = [c \in cs |-> <<>>]
    /\ range0 = [c \in cs |-> <<s, e>>]
    /\ flatFrom = [c \in cs |-> None]
    /\ fault = "none"

(* the queues of at most maxPairs pairs in the layout of LeafOffsets, with *)
(* cs views over one sibling range of the queue                            *)
InitShapes(maxPairs, cs) ==
    \E m \in 0 .. maxPairs :
      \E b \in Brackets(2 * m) :
        LET q == MakeQueue(b, 2 * m, LeafOffsets(b, 2 * m))
        IN  \E s \in 0 .. QLen(q) :
              \E e \in s .. QLen(q) :
                /\ SiblingRange(q, s, e)
                /\ InitOver(LeafText(b, 2 * m), q, cs, s, e)

(* Spec: every shape of queue of at most MaxPairs pairs; two views over    *)
(* the same sibling range, the view and a fresh one.                       *)
Init == InitShapes(MaxPairs, {1, 2})

(* SpecViews: NumCursors cursors over the same sibling range of a queue of *)
(* at most ViewPairs pairs, stepped in any interleaving.                   *)
InitViews == InitShapes(ViewPairs, 1 .. NumCursors)

(* SpecLoc: every input of at most MaxLen bytes and every queue of at most *)
(* LocPairs pairs whose offsets are character boundaries of it; one view.  *)
InitLoc ==
    \E t \in Texts(MaxLen) :
      \E q \in Queues(t, LocPairs) :
        \E s \in 0 .. QLen(q) :
          \E e \in s .. QLen(q) :
            /\ SiblingRange(q, s, e)
            /\ InitOver(t, q, {1}, s, e)

(* start and end kept in one place that all the views share *)
StoreShared(vs, c, self) ==
    [d \in DOMAIN vs |-> [vs[d] EXCEPT !.start = self.start, !.end = self.end]]

(* a call on the view of cursor c writes that view and no other *)
Store(vs, c, self) == [vs EXCEPT ![c] = self]

Step(c, op, r) ==
    /\ views' = Store(views, c, r.self)
    /\ fault' = r.fault
    /\ ret' = Call(c, op, r.value)
    /\ yields' = IF r.value.some
                 THEN [yields EXCEPT ![c] = Append(@, Yield(op, r.value.val))]
                 ELSE yields
    /\ UNCHANGED <<queue, input, moved, flat, flatYields, range0, flatFrom>>

(* peek as a call that consumes the pair it returns *)
DoPeekAdvancing(c) ==
    /\ Live(c)
    /\ Step(c, "peek", next(queue, views[c]))

DoPeek(c) ==
    /\ Live(c)
    /\ ret' = Call(c, "peek", peek(views[c]))
    /\ UNCHANGED <<queue, input, views, moved, flat, yields, flatYields,
                   range0, flatFrom, fault>>

DoNext(c) ==
    /\ Live(c)
    /\ Step(c, "next", next(queue, views[c]))

DoNextBack(c) ==
    /\ Live(c)
    /\ Step(c, "next_back", next_back(queue, views[c]))

DoFlatten(c) ==
    /\ Live(c)
    /\ moved' = moved \cup {c}
    /\ flat' = [flat EXCEPT ![c] = Some(flatten(views[c]))]
    /\ flatFrom' = [flatFrom EXCEPT ![c] = Some(<<views[c].start, views[c].end>>)]
    /\ ret' = Call(c, "flatten", None)
    /\ UNCHANGED <<queue, input, views, yields, flatYields, range0, fault>>

DoFlatNext(c) ==
    /\ fault = "none"
    /\ flat[c].some
    /\ LET r == FlatPairs_next(queue, flat[c].val)
       IN  /\ flat' = [flat EXCEPT ![c] = Some(r.self)]
           /\ ret' = Call(c, "flat_next", r.value)
           /\ flatYields' = IF r.value.some
                            THEN [flatYields EXCEPT ![c] = Append(@, r.value.val)]
                            ELSE flatYields
    /\ UNCHANGED <<queue, input, views, moved, yields, range0, flatFrom, fault>>

Next ==
    \/ \E c \in Cursors : DoPeek(c)
    \/ \E c \in Cursors : DoNext(c)
    \/ \E c \in Cursors : DoNextBack(c)
    \/ \E c \in Cursors : DoFlatten(c)
    \/ \E c \in Cursors : DoFlatNext(c)

Spec == Init /\ [][Next]_vars

SpecLoc == InitLoc /\ [][Next]_vars

NextViews ==
    \/ \E c \in Cursors : DoPeek(c)
    \/ \E c \in Cursors : DoNext(c)
    \/ \E c \in Cursors : DoNextBack(c)

SpecViews == InitViews /\ [][NextViews]_vars

(***************************************************************************)
(* What the properties speak about, read off the queue without the         *)
(* forward pointers the iterators follow.                                  *)
(***************************************************************************)
(* the elements of a set of integers in increasing order *)
RECURSIVE Ascending(_)
Ascending(S) ==
    IF S = {} THEN <<>>
    ELSE LET m == CHOOSE x \in S : \A y \in S : x <= y
         IN  <<m>> \o Ascending(S \ {m})

IsPrefix(a, b) == Len(a) <= Len(b) /\ a = SubSeq(b, 1, Len(a))

(* a is b with some elements left out *)
RECURSIVE IsSubsequence(_, _)
IsSubsequence(a, b) ==
    IF a = <<>> THEN TRUE
    ELSE IF b = <<>> THEN FALSE
    ELSE IF Head(a) = Head(b) THEN IsSubsequence(Tail(a), Tail(b))
    ELSE IsSubsequence(a, Tail(b))

(* the End token that points back at the Start token i *)
MatchingEnd(q, i) ==
    CHOOSE j \in DOMAIN q : q[j].type = "End" /\ q[j].start_token_index = i

(* the Start tokens of [s, e), and those of them that are not nested in    *)
(* another pair of the range                                               *)
StartsIn(q, s, e) == {i \in s .. e - 1 : q[i].type = "Start"}

TopLevel(q, s, e) == {i \in StartsIn(q, s, e) : DepthIn(q, s, i) = 0}

HasDescendant(q, i) == q[i + 1].type = "Start"

(* the token indices of the pairs a cursor was given by one operation, and *)
(* by its FlatPairs, in call order                                         *)
YieldedBy(c, op) ==
    LET ys == SelectSeq(yields[c], LAMBDA y : y.op = op)
    IN  [k \in 1 .. Len(ys) |-> ys[k].pair.start]

FlatYielded(c) == [k \in 1 .. Len(flatYields[c]) |-> flatYields[c][k].start]

Only(c, op) == \A k \in 1 .. Len(yields[c]) : yields[c][k].op = op

(* the next call of next() or next_back() on the view of c returns None *)
Exhausted(c) == fault = "none" /\ views[c].start >= views[c].end

FlatExhausted(c) == flat[c].some /\ flat[c].val.start >= flat[c].val.end

(***************************************************************************)
(* C1: over one sibling range, the pairs next() gives until it gives None  *)
(* and the pairs next_back() gives a fresh view of the same range until it *)
(* gives None are the same pairs in opposite order.                        *)
(***************************************************************************)
C1_ForwardIsReverseOfBackward ==
    \A c, d \in Cursors :
        (/\ c # d
         /\ range0[c] = range0[d]
         /\ Only(c, "next") /\ Exhausted(c)
         /\ Only(d, "next_back") /\ Exhausted(d))
        => YieldedBy(c, "next") = Reverse(YieldedBy(d, "next_back"))

(* both runs done over three siblings, one of them with a pair inside *)
C1_Witness ==
    /\ Only(1, "next") /\ Exhausted(1)
    /\ Only(2, "next_back") /\ Exhausted(2)
    /\ Len(yields[1]) >= 2
    /\ Len(yields[2]) >= 2
    /\ \E k \in 1 .. Len(yields[1]) : HasDescendant(queue, yields[1][k].pair.start)

(***************************************************************************)
(* C2: the pairs next() gives are siblings.  After it gave the pair at i,  *)
(* start is one past the End that matches i; none of the pairs it gives    *)
(* lies inside one it gave before; the pairs it gives are the top-level    *)
(* Start tokens of the range in increasing order, all of them once it      *)
(* gives None.                                                             *)
(***************************************************************************)
C2_NextYieldsSiblings ==
    \A c \in Cursors :
        LET fwd == YieldedBy(c, "next")
            top == Ascending(TopLevel(queue, range0[c][1], range0[c][2]))
        IN  /\ IsPrefix(fwd, top)
            /\ (Only(c, "next") /\ Exhausted(c)) => fwd = top
            /\ fwd # <<>> =>
                  views[c].start = MatchingEnd(queue, fwd[Len(fwd)]) + 1
            /\ \A k, l \in 1 .. Len(fwd) :
                  k < l => ~(fwd[k] < fwd[l]
                             /\ fwd[l] < MatchingEnd(queue, fwd[k]))

(* next() skipped the pairs inside a pair it gave, and gave a sibling *)
C2_Witness ==
    \E c \in Cursors :
        /\ Only(c, "next") /\ Exhausted(c)
        /\ Len(yields[c]) >= 2
        /\ HasDescendant(queue, yields[c][1].pair.start)

(***************************************************************************)
(* C3: the FlatPairs that flatten() makes of a view whose range is         *)
(* [start, end), whatever was called on the view before, gives one pair    *)
(* for each Start token of [start, end), in increasing order of index, the *)
(* pairs inside other pairs included, and all of them once it gives None.  *)
(***************************************************************************)
C3_FlattenYieldsEveryStart ==
    \A c \in Cursors :
        flat[c].some =>
            LET from == flatFrom[c].val
                all == Ascending(StartsIn(queue, from[1], from[2]))
            IN  /\ IsPrefix(FlatYielded(c), all)
                /\ FlatExhausted(c) => FlatYielded(c) = all

(* a view was advanced, then flattened, and its FlatPairs ran dry after it *)
(* gave a pair that lies inside another                                    *)
C3_Witness ==
    \E c \in Cursors :
        /\ FlatExhausted(c)
        /\ yields[c] # <<>>
        /\ flatFrom[c].val # range0[c]
        /\ \E k \in 1 .. Len(flatYields[c]) :
              DepthIn(queue, flatFrom[c].val[1], flatYields[c][k].start) > 0

(***************************************************************************)
(* C4: over one range, the pairs next() gives until it gives None are a    *)
(* subsequence of the pairs flatten() gives; flatten() gives more pairs    *)
(* when one of the pairs next() gives has a pair inside, and the same      *)
(* sequence when none has.                                                 *)
(***************************************************************************)
C4_NestedIsSubsequenceOfFlat ==
    \A c, d \in Cursors :
        (/\ c # d
         /\ Only(c, "next") /\ Exhausted(c)
         /\ FlatExhausted(d)
         /\ flatFrom[d] = Some(range0[c]))
        => LET nested == YieldedBy(c, "next")
               flattened == FlatYielded(d)
               deep == \E k \in 1 .. Len(nested) : HasDescendant(queue, nested[k])
           IN  /\ IsSubsequence(nested, flattened)
               /\ deep => Len(flattened) > Len(nested)
               /\ ~deep => flattened = nested

(* one view ran forward and a fresh one was flattened, over siblings of    *)
(* which one has a pair inside                                             *)
C4_Witness ==
    /\ Only(1, "next") /\ Exhausted(1)
    /\ FlatExhausted(2)
    /\ flatFrom[2] = Some(range0[1])
    /\ Len(yields[1]) >= 2
    /\ Len(flatYields[2]) > Len(yields[1])

(***************************************************************************)
(* C5: peek() changes nothing of the view, the queue or the input; it      *)
(* returns the pair at start when start < end and None otherwise;          *)
(* called again it returns the same; the next() that follows it returns    *)
(* what it returned, and the next_back() that follows it returns a pair    *)
(* exactly when it did.                                                    *)
(***************************************************************************)
PeekValue(self) ==
    IF self.start < self.end
    THEN Some([start |-> self.start, line_index |-> Some(self.line_index)])
    ELSE None

PeekStep ==
    ret'.op = "peek" =>
        /\ views' = views
        /\ queue' = queue
        /\ input' = input
        /\ ret'.value = PeekValue(views[ret'.cursor])
        /\ (ret.op = "peek" /\ ret.cursor = ret'.cursor) => (ret'.value = ret.value)

AfterPeek(op) == ret.op = "peek" /\ ret'.cursor = ret.cursor /\ ret'.op = op

C5_PeekIsPure ==
    [][/\ PeekStep
       /\ AfterPeek("next") => (ret'.value = ret.value)
       /\ AfterPeek("next_back") => (ret'.value.some = ret.value.some)]_vars

(* peek() returned a pair of a view that had been advanced from both ends *)
C5_Witness ==
    /\ ret.op = "peek"
    /\ ret.value.some
    /\ ~Only(ret.cursor, "next")
    /\ ~Only(ret.cursor, "next_back")

(***************************************************************************)
(* Lines and columns read off the input: a line starts at offset 0 and     *)
(* behind every line feed; a column counts the characters, not the bytes.  *)
(***************************************************************************)
LineStarts(t) == {0} \cup {k \in 1 .. Len(t) : t[k] = "nl"}

LineOf(t, off) == Cardinality({ls \in LineStarts(t) : ls <= off})

LineStartOf(t, off) ==
    CHOOSE ls \in LineStarts(t) :
        ls <= off /\ \A other \in LineStarts(t) : other <= off => other <= ls

ColOf(t, off) ==
    Cardinality({k \in LineStartOf(t, off) + 1 .. off : t[k] # "cont"}) + 1

(* the pairs the view of cursor c and its FlatPairs have returned *)
PairsOf(c) ==
    {yields[c][k].pair : k \in 1 .. Len(yields[c])}
        \cup {flatYields[c][k] : k \in 1 .. Len(flatYields[c])}
        \cup (IF ret.cursor = c /\ ret.value.some THEN {ret.value.val} ELSE {})

(***************************************************************************)
(* C6: line_col() of a pair that starts at offset 0 is (1, 1); of a pair   *)
(* that starts at the first byte of line n it is (n, 1); of any pair it is *)
(* the number of line starts at or before its offset and one more than the *)
(* number of characters between the last of these and its offset.          *)
(***************************************************************************)
C6_LineColOfYieldedPairs ==
    \A c \in Cursors :
        \A p \in PairsOf(c) :
            LET off == queue[p.start].input_pos
                lc == Pair_line_col(queue, input, p)
            IN  /\ lc.some
                /\ lc.val = <<LineOf(input, off), ColOf(input, off)>>
                /\ off = 0 => lc.val = <<1, 1>>
                /\ off \in LineStarts(input) =>
                      lc.val = <<1 + Cardinality({k \in 1 .. off : input[k] = "nl"}),
                                 1>>

(* a pair was returned that starts at the first byte of the third line *)
C6_Witness ==
    \E c \in Cursors :
        \E p \in PairsOf(c) :
            /\ queue[p.start].input_pos \in LineStarts(input)
            /\ Pair_line_col(queue, input, p) = Some(<<3, 1>>)

(***************************************************************************)
(* C7: every pair peek(), next() and next_back() return carries the line   *)
(* index of the view, the FlatPairs of flatten() carries it and so does    *)
(* every pair the FlatPairs returns: line_col() has an index to answer     *)
(* from on each of them.                                                   *)
(***************************************************************************)
C7_PairsCarryLineIndex ==
    \A c \in Cursors :
        /\ flat[c].some => flat[c].val.line_index = Some(views[c].line_index)
        /\ \A p \in PairsOf(c) :
              /\ p.line_index = Some(views[c].line_index)
              /\ Pair_line_col(queue, input, p).some

(* the two views have each returned pairs, one of them through flatten() *)
C7_Witness ==
    /\ \E k \in 1 .. Len(yields[1]) : yields[1][k].op = "next"
    /\ \E k \in 1 .. Len(yields[1]) : yields[1][k].op = "next_back"
    /\ flatYields[1] # <<>>
    /\ yields[2] # <<>>
    /\ ret.op = "peek" /\ ret.value.some

(***************************************************************************)
(* C8: every pair returned is at a Start token; its as_str() is the input  *)
(* from the offset of that token to the offset of the End token that       *)
(* points back at it; its line_col() is what the line index of the view    *)
(* gives for the first of these offsets.                                   *)
(***************************************************************************)
C8_SpanRoundTrip ==
    \A c \in Cursors :
        \A p \in PairsOf(c) :
            /\ queue[p.start].type = "Start"
            /\ LET from == queue[p.start].input_pos
                   to == queue[MatchingEnd(queue, p.start)].input_pos
               IN  /\ from <= to
                   /\ to <= Len(input)
                   /\ Pair_as_str(queue, input, p)
                         = [k \in 1 .. to - from |-> input[from + k]]
                   /\ Pair_line_col(queue, input, p)
                         = Some(LineIndex_line_col(views[c].line_index.value,
                                                   input, from))

(* a pair that matched a two-byte character was returned, and next_back()  *)
(* returned the pair behind it, in column 2 at byte offset 2               *)
C8_Witness ==
    /\ \E p \in PairsOf(1) :
          Pair_as_str(queue, input, p) = <<"lead", "cont">>
    /\ ret.op = "next_back"
    /\ ret.value.some
    /\ queue[ret.value.val.start].input_pos = 2
    /\ Pair_line_col(queue, input, ret.value.val) = Some(<<1, 2>>)

(***************************************************************************)
(* C9: over a well-formed queue and range no call panics: pair() and       *)
(* pair_from_end() find a Start and an End inside the queue whenever       *)
(* next() and next_back() call them, the FlatPairs reads inside the queue, *)
(* and every call returns a pair of the queue or None.                     *)
(***************************************************************************)
C9_OperationsAreTotal ==
    /\ fault = "none"
    /\ ret.value.some => ret.value.val.start \in DOMAIN queue
    /\ \A c \in Cursors :
          /\ views[c].start < views[c].end =>
                /\ pair(queue, views[c]).ok
                /\ pair_from_end(queue, views[c]).ok
          /\ (flat[c].some /\ flat[c].val.start < flat[c].val.end) =>
                flat[c].val.start \in DOMAIN queue

(* a view gave three pairs, from both ends, and then None *)
C9_Witness ==
    /\ ret.op = "next_back"
    /\ ret.value = None
    /\ Len(yields[ret.cursor]) >= 3
    /\ ~Only(ret.cursor, "next_back")
    /\ \E c \in Cursors : FlatExhausted(c) /\ flatYields[c] # <<>>

(***************************************************************************)
(* C10: cursors over the same queue, input and range, stepped in any       *)
(* interleaving, each give the pairs and reach the range they would alone: *)
(* the calls of one cursor, replayed in the same order on a fresh view     *)
(* that no other cursor steps beside, give what the cursor gave and leave  *)
(* the start and end the cursor has.                                       *)
(***************************************************************************)
RECURSIVE Solo(_, _, _, _)
Solo(q, self, calls, out) ==
    IF calls = <<>> THEN [self |-> self, out |-> out]
    ELSE LET op == Head(calls).op
             r == IF op = "next" THEN next(q, self) ELSE next_back(q, self)
         IN  IF ~r.value.some THEN [self |-> r.self, out |-> out]
             ELSE Solo(q, r.self, Tail(calls),
                       Append(out, Yield(op, r.value.val)))

AsIfAlone(c) ==
    LET fresh == new(input, range0[c][1], range0[c][2], c)
        solo == Solo(queue, fresh, yields[c], <<>>)
    IN  /\ solo.out = yields[c]
        /\ solo.self = views[c]

C10_CursorsAreIndependent == \A c \in Cursors : AsIfAlone(c)

(* two cursors at different places of the same range: one ran forward to   *)
(* the end, the other gave one pair from the back                          *)
C10_Witness ==
    /\ Only(1, "next") /\ Exhausted(1) /\ Len(yields[1]) >= 2
    /\ Only(2, "next_back") /\ Len(yields[2]) = 1
    /\ ret.op = "peek" /\ ret.cursor = 2 /\ ret.value.some

(***************************************************************************)
(* The plain nested Pairs view of section 4.3 of the specification: a      *)
(* range [start, end) without a line index.  A call gives the view after   *)
(* it and the token index of the pair it returns, if any.                  *)
(***************************************************************************)
Pairs_new(start, end) == [start |-> start, end |-> end]

Pairs_peek(q, self) ==
    [self |-> self,
     value |-> IF self.start < self.end THEN Some(self.start) ELSE None]

Pairs_next(q, self) ==
    IF self.start < self.end
    THEN [self |-> [self EXCEPT !.start = q[self.start].end_token_index + 1],
          value |-> Some(self.start)]
    ELSE [self |-> self, value |-> None]

Pairs_next_back(q, self) ==
    IF self.end <= self.start THEN [self |-> self, value |-> None]
    ELSE LET s == q[self.end - 1].start_token_index
         IN  [self |-> [self EXCEPT !.end = s], value |-> Some(s)]

Pairs_call(q, self, op) ==
    IF op = "peek" THEN Pairs_peek(q, self)
    ELSE IF op = "next" THEN Pairs_next(q, self)
    ELSE Pairs_next_back(q, self)

(***************************************************************************)
(* C11: a locatable view and a plain view over the same queue and range,   *)
(* given the same calls of peek, next and next_back, stay at the same      *)
(* start and end, return pairs at the same token indices and return None   *)
(* at the same calls: each call of the locatable view is matched by the    *)
(* same call of the plain view at the same start and end.                  *)
(***************************************************************************)
C11_SameAsPlainPairs ==
    [][ret'.op \in {"peek", "next", "next_back"} =>
          LET c == ret'.cursor
              plain == Pairs_call(queue, Pairs_new(views[c].start, views[c].end),
                                  ret'.op)
          IN  /\ fault' = "none"
              /\ ret'.value.some = plain.value.some
              /\ ret'.value.some => (ret'.value.val.start = plain.value.val)
              /\ views'[c].start = plain.self.start
              /\ views'[c].end = plain.self.end]_vars

(* next() returned a pair with a pair inside to a view that had given a    *)
(* pair from its back before                                               *)
C11_Witness ==
    /\ ret.op = "next"
    /\ ret.value.some
    /\ HasDescendant(queue, ret.value.val.start)
    /\ \E k \in 1 .. Len(yields[ret.cursor]) :
          yields[ret.cursor][k].op = "next_back"

(***************************************************************************)
(* C12: the boundaries of a view are boundaries of pairs.  Whenever        *)
(* start < end, the token at end - 1 is an End, the token at start is a    *)
(* Start, and the End that matches it lies before end.                     *)
(***************************************************************************)
C12_BoundariesArePairBoundaries ==
    \A c \in Cursors :
        views[c].start < views[c].end =>
            /\ views[c].start \in DOMAIN queue
            /\ views[c].end - 1 \in DOMAIN queue
            /\ queue[views[c].end - 1].type = "End"
            /\ queue[views[c].start].type = "Start"
            /\ MatchingEnd(queue, views[c].start) < views[c].end

(* a view that gave a pair from each end and has a pair left *)
C12_Witness ==
    \E c \in Cursors :
        /\ views[c].start < views[c].end
        /\ YieldedBy(c, "next") # <<>>
        /\ YieldedBy(c, "next_back") # <<>>
        /\ ret.op = "peek" /\ ret.cursor = c

(***************************************************************************)
(* C13: start and end may meet and never cross.  start <= end in every     *)
(* state, and a next() or next_back() called when start = end returns None *)
(* and leaves them equal.                                                  *)
(***************************************************************************)
MetStep ==
    (/\ ret'.op \in {"next", "next_back"}
     /\ views[ret'.cursor].start = views[ret'.cursor].end)
    => (ret'.value = None /\ views' = views)

C13_CursorsNeverCross ==
    /\ [](\A c \in Cursors : views[c].start <= views[c].end)
    /\ [][MetStep]_vars

(* start and end met inside the range, each having given pairs, and the    *)
(* next() called then returned None                                        *)
C13_Witness ==
    /\ ret.op = "next"
    /\ ret.value = None
    /\ views[ret.cursor].start > range0[ret.cursor][1]
    /\ views[ret.cursor].end < range0[ret.cursor][2]

(***************************************************************************)
(* C14: whatever the interleaving of next() and next_back() on one view,   *)
(* no top-level pair of its range is given twice and, once both return     *)
(* None, none was skipped: the pairs next() gave, in call order, followed  *)
(* by the pairs next_back() gave, in reverse call order, are the top-level *)
(* pairs of the range in increasing order.                                 *)
(***************************************************************************)
C14_EveryPairExactlyOnce ==
    \A c \in Cursors :
        LET given == YieldedBy(c, "next") \o Reverse(YieldedBy(c, "next_back"))
            top == Ascending(TopLevel(queue, range0[c][1], range0[c][2]))
        IN  /\ IsSubsequence(given, top)
            /\ Exhausted(c) => given = top

(* a view over three siblings ran dry after giving pairs from both ends *)
C14_Witness ==
    \E c \in Cursors :
        /\ Exhausted(c)
        /\ Len(yields[c]) = 3
        /\ yields[c][1].op = "next_back"
        /\ yields[c][2].op = "next"

(***************************************************************************)
(* C15: iteration stops.  A next() that returns a pair moves start up by   *)
(* at least 2 and a next_back() that returns a pair moves end down by at   *)
(* least 2, so a view over [start, end) gives at most (end - start) / 2    *)
(* pairs; a call that returns None leaves start >= end, no call undoes     *)
(* that, and every next() and next_back() called then returns None.        *)
(***************************************************************************)
Progress ==
    LET c == ret'.cursor
    IN  /\ (ret'.op = "next" /\ ret'.value.some) =>
              views'[c].start >= views[c].start + 2
        /\ (ret'.op = "next_back" /\ ret'.value.some) =>
              views'[c].end <= views[c].end - 2

StaysDry ==
    /\ \A c \in Cursors :
          views[c].start >= views[c].end => views'[c].start >= views'[c].end
    /\ ret'.op \in {"next", "next_back"} =>
          LET c == ret'.cursor
          IN  /\ ret'.value = None => views'[c].start >= views'[c].end
              /\ views[c].start >= views[c].end => ret'.value = None

C15_IterationStops ==
    /\ [](\A c \in Cursors :
             2 * Len(yields[c]) <= range0[c][2] - range0[c][1])
    /\ [][Progress /\ StaysDry]_vars

(* a view gave as many pairs as its range has room for, and then None *)
C15_Witness ==
    /\ ret.op = "next"
    /\ ret.value = None
    /\ Len(yields[ret.cursor]) >= 2
    /\ 2 * Len(yields[ret.cursor])
         = range0[ret.cursor][2] - range0[ret.cursor][1]

(***************************************************************************)
(* C16: next() writes start only and next_back() writes end only, in the   *)
(* view they are called on; a call that returns None writes neither; and   *)
(* no call changes the queue, the input or the line index of a view, which *)
(* flatten() hands on as it is.                                            *)
(***************************************************************************)
SharedUnchanged ==
    /\ queue' = queue
    /\ input' = input
    /\ \A c \in Cursors : views'[c].line_index = views[c].line_index

OthersUnchanged(c) == \A d \in Cursors \ {c} : views'[d] = views[d]

Frame ==
    LET c == ret'.cursor
    IN  /\ ret'.op = "next" =>
              (views'[c].end = views[c].end /\ OthersUnchanged(c))
        /\ ret'.op = "next_back" =>
              (views'[c].start = views[c].start /\ OthersUnchanged(c))
        /\ (ret'.op \in {"next", "next_back"} /\ ret'.value = None) =>
              views' = views
        /\ ret'.op \in {"peek", "flatten", "flat_next"} => views' = views
        /\ (ret'.op = "flatten" /\ ret' # ret) =>
              flat'[c].val.line_index = Some(views[c].line_index)

C16_CallsWriteOnlyTheirCursor == [][SharedUnchanged /\ Frame]_vars

(* flatten() was called on a view that had given pairs from both ends *)
C16_Witness ==
    /\ ret.op = "flatten"
    /\ YieldedBy(ret.cursor, "next") # <<>>
    /\ YieldedBy(ret.cursor, "next_back") # <<>>
    /\ views[ret.cursor].start < views[ret.cursor].end

(***************************************************************************)
(* C17: next() returns what peek() returns in the state it is called in:   *)
(* the pair at the start of before the call when start < end, and None     *)
(* when start >= end.                                                      *)
(***************************************************************************)
NextReturnsPeek ==
    ret'.op = "next" =>
        LET self == views[ret'.cursor]
        IN  /\ ret'.value = peek(self)
            /\ self.start < self.end =>
                  (ret'.value.some /\ ret'.value.val.start = self.start)
            /\ self.start >= self.end => ret'.value = None

C17_NextReturnsPeek == [][NextReturnsPeek]_vars

(* the third next() of a view that was only ever asked for next() *)
C17_Witness ==
    /\ ret.op = "next"
    /\ ret.value.some
    /\ Only(ret.cursor, "next")
    /\ Len(yields[ret.cursor]) = 3

(***************************************************************************)
(* C18: the line index is built once, by new(): in every state the view    *)
(* holds the allocation new() made from the scan of the input, and every   *)
(* pair peek(), next(), next_back() and the FlatPairs have returned, and   *)
(* the FlatPairs of flatten(), hold that same allocation; line_col() of a  *)
(* pair answers from it.  No call makes another index.                     *)
(***************************************************************************)
Built(c) == Rc_new(c, LineIndex_new(input))

C18_LineIndexBuiltOnce ==
    \A c \in Cursors :
        /\ views[c].line_index = Built(c)
        /\ flat[c].some => flat[c].val.line_index = Some(Built(c))
        /\ \A p \in PairsOf(c) :
              /\ p.line_index = Some(Built(c))
              /\ Pair_line_col(queue, input, p)
                    = Some(LineIndex_line_col(Built(c).value, input,
                                              Pair_pos(queue, p.start)))

(* an input of two lines; next() has returned a pair of it and the         *)
(* FlatPairs of the rest of the view has just returned one on line 2       *)
C18_Witness ==
    /\ Len(Built(1).value.line_offsets) = 2
    /\ \E k \in 1 .. Len(yields[1]) : yields[1][k].op = "next"
    /\ ret.op = "flat_next"
    /\ ret.value.some
    /\ Pair_line_col(queue, input, ret.value.val) = Some(<<2, 1>>)

====
